---- MODULE Spec2Model ----
(***************************************************************************)
(* Model of the cron expression parser (parser.js, held in                 *)
(* src/unnamed/part_000).  Strings are sequences of one-character strings; *)
(* parseInt, split and trim are modelled on those sequences, so that what  *)
(* the parser accepts and rejects is decided by the same character-level   *)
(* rules as in the JavaScript source.                                      *)
(***************************************************************************)
EXTENDS Integers, Sequences, FiniteSets, TLC

\* ------------------------------------------------------------------ bounds

\* Longest field expression handed to parseField.
MaxLen == 5

\* ------------------------------------------------------------- characters

DigitChars == <<"0", "1", "2", "3", "4", "5", "6", "7", "8", "9">>

IsDigit(c) == \E i \in 1..10 : DigitChars[i] = c

DigitValue(c) == (CHOOSE i \in 1..10 : DigitChars[i] = c) - 1

\* What String.prototype.trim, parseInt and the regular expression \s skip.
WhiteSpace == {" ", "\t"}

\* --------------------------------------------------- JavaScript primitives

\* The value NaN and a finite number, as parseInt returns them.
NaN == [nan |-> TRUE, val |-> 0]

Num(n) == [nan |-> FALSE, val |-> n]

isNaN(v) == v.nan

RECURSIVE TrimStart(_)
TrimStart(s) ==
  IF s # <<>> /\ Head(s) \in WhiteSpace THEN TrimStart(Tail(s)) ELSE s

RECURSIVE TrimEnd(_)
TrimEnd(s) ==
  IF s # <<>> /\ s[Len(s)] \in WhiteSpace
  THEN TrimEnd(SubSeq(s, 1, Len(s) - 1))
  ELSE s

\* String.prototype.trim
trim(s) == TrimEnd(TrimStart(s))

\* String.prototype.includes, for a one-character needle
includes(s, c) == \E i \in 1..Len(s) : s[i] = c

\* Number of leading decimal digits of s.
RECURSIVE DigitPrefix(_)
DigitPrefix(s) ==
  IF s # <<>> /\ IsDigit(Head(s)) THEN 1 + DigitPrefix(Tail(s)) ELSE 0

\* Value of a sequence of decimal digits, most significant first.
RECURSIVE DigitsValue(_)
DigitsValue(s) ==
  IF s = <<>> THEN 0
  ELSE 10 * DigitsValue(SubSeq(s, 1, Len(s) - 1)) + DigitValue(s[Len(s)])

\* parseInt(s, 10): leading white space is skipped, one sign is accepted, the
\* longest run of digits that follows is the value and whatever comes after it
\* is ignored; NaN when no digit is found there.
parseInt(s) ==
  LET t      == TrimStart(s)
      signed == t # <<>> /\ Head(t) \in {"+", "-"}
      body   == IF signed THEN Tail(t) ELSE t
      n      == DigitPrefix(body)
      mag    == DigitsValue(SubSeq(body, 1, n))
  IN  IF n = 0 THEN NaN
      ELSE IF signed /\ Head(t) = "-" THEN Num(0 - mag) ELSE Num(mag)

\* String.prototype.split with a one-character separator.
RECURSIVE split(_, _)
split(s, c) ==
  IF ~includes(s, c) THEN <<s>>
  ELSE LET i == CHOOSE k \in 1..Len(s) :
                  s[k] = c /\ \A j \in 1..(k - 1) : s[j] # c
       IN  <<SubSeq(s, 1, i - 1)>> \o split(SubSeq(s, i + 1, Len(s)), c)

\* Template-literal interpolation of a non-negative number.
RECURSIVE ToStr(_)
ToStr(n) ==
  IF n < 10 THEN <<DigitChars[n + 1]>>
  ELSE ToStr(n \div 10) \o <<DigitChars[(n % 10) + 1]>>

\* A thrown Error carries a message; a normal return carries the array.
Throw(msg) == [ok |-> FALSE, message |-> msg]

Return(vals) == [ok |-> TRUE, values |-> vals]

\* ------------------------------------------------------------ FIELD_CONFIG

FIELD_CONFIG ==
  [ minute     |-> [min |-> 0, max |-> 59],
    hour       |-> [min |-> 0, max |-> 23],
    dayOfMonth |-> [min |-> 1, max |-> 31],
    month      |-> [min |-> 1, max |-> 12],
    dayOfWeek  |-> [min |-> 0, max |-> 6] ]

FieldNames == <<"minute", "hour", "dayOfMonth", "month", "dayOfWeek">>

\* ----------------------------------------------------------- the expander

\* generateRange with the loop condition i < end: the end is left out.
RECURSIVE generateRangeExclusive(_, _, _)
generateRangeExclusive(start, end, step) ==
  IF start < end
  THEN <<start>> \o generateRangeExclusive(start + step, end, step)
  ELSE <<>>

\* for (let i = start; i <= end; i += step) result.push(i)
RECURSIVE generateRange(_, _, _)
generateRange(start, end, step) ==
  IF start <= end
  THEN <<start>> \o generateRange(start + step, end, step)
  ELSE <<>>

\* parseStepValue with the bounds check of the Range rule applied to the
\* resolved interval.
parseStepValueChecked(expression, min, max) ==
  LET parts     == split(expression, "/")
      range     == parts[1]
      step      == parts[2]
      stepValue == parseInt(step)
      ends      == split(range, "-")
      start     == IF range = <<"*">> THEN Num(min) ELSE parseInt(ends[1])
      end       == IF includes(range, "-") THEN parseInt(ends[2]) ELSE Num(max)
  IN  IF isNaN(stepValue) \/ stepValue.val <= 0
      THEN Throw(<<"Invalid step value: ">> \o step)
      ELSE IF isNaN(start) \/ isNaN(end)
      THEN Throw(<<"Invalid range in step expression: ">> \o range)
      ELSE IF start.val < min \/ end.val > max \/ start.val > end.val
      THEN Throw(<<"Range ">> \o range \o <<" is out of bounds (">>
                 \o ToStr(min) \o <<"-">> \o ToStr(max) \o <<")">>)
      ELSE Return(generateRange(start.val, end.val, stepValue.val))

parseStepValue(expression, min, max) ==
  LET parts     == split(expression, "/")
      range     == parts[1]
      step      == parts[2]
      stepValue == parseInt(step)
  IN  IF isNaN(stepValue) \/ stepValue.val <= 0
      THEN Throw(<<"Invalid step value: ">> \o step)
      ELSE IF range = <<"*">>
      THEN Return(generateRange(min, max, stepValue.val))
      ELSE IF includes(range, "-")
      THEN LET ends       == split(range, "-")
               rangeStart == parseInt(ends[1])
               rangeEnd   == parseInt(ends[2])
           IN  IF isNaN(rangeStart) \/ isNaN(rangeEnd)
               THEN Throw(<<"Invalid range in step expression: ">> \o range)
               ELSE Return(generateRange(rangeStart.val, rangeEnd.val,
                                         stepValue.val))
      ELSE LET start == parseInt(range)
           IN  IF isNaN(start)
               THEN Throw(<<"Invalid start value in step expression: ">>
                          \o range)
               ELSE Return(generateRange(start.val, max, stepValue.val))

\* parseRange with end >= max for end > max: a range up to max is rejected.
parseRangeBelowMax(expression, min, max) ==
  LET ends  == split(expression, "-")
      start == parseInt(ends[1])
      end   == parseInt(ends[2])
  IN  IF isNaN(start) \/ isNaN(end)
      THEN Throw(<<"Invalid range: ">> \o expression)
      ELSE IF start.val < min \/ end.val >= max \/ start.val > end.val
      THEN Throw(<<"Range ">> \o expression \o <<" is out of bounds (">>
                 \o ToStr(min) \o <<"-">> \o ToStr(max) \o <<")">>)
      ELSE Return(generateRange(start.val, end.val, 1))

\* parseRange without the test start > end: a reversed range is accepted.
parseRangeUnordered(expression, min, max) ==
  LET ends  == split(expression, "-")
      start == parseInt(ends[1])
      end   == parseInt(ends[2])
  IN  IF isNaN(start) \/ isNaN(end)
      THEN Throw(<<"Invalid range: ">> \o expression)
      ELSE IF start.val < min \/ end.val > max
      THEN Throw(<<"Range ">> \o expression \o <<" is out of bounds (">>
                 \o ToStr(min) \o <<"-">> \o ToStr(max) \o <<")">>)
      ELSE Return(generateRange(start.val, end.val, 1))

parseRange(expression, min, max) ==
  LET ends  == split(expression, "-")
      start == parseInt(ends[1])
      end   == parseInt(ends[2])
  IN  IF isNaN(start) \/ isNaN(end)
      THEN Throw(<<"Invalid range: ">> \o expression)
      ELSE IF start.val < min \/ end.val > max \/ start.val > end.val
      THEN Throw(<<"Range ">> \o expression \o <<" is out of bounds (">>
                 \o ToStr(min) \o <<"-">> \o ToStr(max) \o <<")">>)
      ELSE Return(generateRange(start.val, end.val, 1))

\* parsedValues.forEach(v => values.add(v)): a Set keeps insertion order and
\* ignores a value it already holds.
RECURSIVE addAll(_, _)
addAll(values, parsedValues) ==
  IF parsedValues = <<>> THEN values
  ELSE addAll(IF \E i \in 1..Len(values) : values[i] = Head(parsedValues)
              THEN values
              ELSE Append(values, Head(parsedValues)),
              Tail(parsedValues))

\* Array.prototype.sort((a, b) => a - b)
RECURSIVE sortAscending(_)
sortAscending(a) ==
  IF a = <<>> THEN <<>>
  ELSE LET i == CHOOSE k \in 1..Len(a) : \A j \in 1..Len(a) : a[k] <= a[j]
       IN  <<a[i]>> \o sortAscending(SubSeq(a, 1, i - 1)
                                     \o SubSeq(a, i + 1, Len(a)))

RECURSIVE parseField(_, _, _)

\* The loop of parseList over parts[i..]: the first part that throws ends it.
RECURSIVE parseListFrom(_, _, _, _, _)
parseListFrom(parts, i, values, min, max) ==
  IF i > Len(parts) THEN Return(sortAscending(values))
  ELSE LET parsedValues == parseField(trim(parts[i]), min, max)
       IN  IF ~parsedValues.ok THEN parsedValues
           ELSE parseListFrom(parts, i + 1,
                              addAll(values, parsedValues.values), min, max)

parseList(expression, min, max) ==
  parseListFrom(split(expression, ","), 1, <<>>, min, max)

parseField(expression, min, max) ==
  IF expression = <<"*">> THEN Return(generateRange(min, max, 1))
  ELSE IF includes(expression, "/") THEN parseStepValue(expression, min, max)
  ELSE IF includes(expression, "-") /\ ~includes(expression, ",")
  THEN parseRange(expression, min, max)
  ELSE IF includes(expression, ",") THEN parseList(expression, min, max)
  ELSE LET value == parseInt(expression)
       IN  IF isNaN(value) \/ value.val < min \/ value.val > max
           THEN Throw(<<"Invalid value: ">> \o expression
                      \o <<". Must be between ">> \o ToStr(min)
                      \o <<" and ">> \o ToStr(max))
           ELSE Return(<<value.val>>)

\* ------------------------------------------------------ the schedule parser

\* JavaScript values a caller may pass as cronString.
StringValue(s) == [type |-> "string", text |-> s]

Undefined == [type |-> "undefined", text |-> <<>>]

Null == [type |-> "object", text |-> <<>>]

NumberValue == [type |-> "number", text |-> <<"5">>]

\* ToBoolean: undefined, null and the empty string are falsy; a non-empty
\* string and a non-zero number are truthy.
Truthy(v) ==
  CASE v.type = "undefined" -> FALSE
    [] v.type = "object"    -> FALSE
    [] v.type = "number"    -> TRUE
    [] v.type = "string"    -> v.text # <<>>

\* String.prototype.split(/\s+/): the text is cut at every maximal run of
\* white space, so m runs leave m + 1 pieces (the empty text is one piece, and
\* a run at either end leaves an empty piece there).
splitWhitespace(s) ==
  LET starts == {i \in 1..Len(s) :
                   s[i] \in WhiteSpace /\ (i = 1 \/ s[i - 1] \notin WhiteSpace)}
      ends   == {i \in 1..Len(s) :
                   s[i] \in WhiteSpace
                     /\ (i = Len(s) \/ s[i + 1] \notin WhiteSpace)}
      \* where the k-th run starts and ends; run 0 ends before the text and
      \* the run after the last one starts behind it
      startOf(k) == IF k > Cardinality(starts) THEN Len(s) + 1
                    ELSE CHOOSE i \in starts :
                           Cardinality({j \in starts : j < i}) = k - 1
      endOf(k)   == IF k = 0 THEN 0
                    ELSE CHOOSE i \in ends :
                           Cardinality({j \in ends : j < i}) = k - 1
  IN  [k \in 1..(Cardinality(starts) + 1) |->
         SubSeq(s, endOf(k - 1) + 1, startOf(k) - 1)]

\* Array.prototype.join(' ')
RECURSIVE join(_)
join(parts) ==
  IF parts = <<>> THEN <<>>
  ELSE IF Len(parts) = 1 THEN parts[1]
  ELSE parts[1] \o <<" ">> \o join(Tail(parts))

\* The object literal of the try block: the five parseField calls are made in
\* property order and the first one that throws abandons the rest.  `arrays`
\* are the arrays returned so far, `calls` counts the parseField calls made.
RECURSIVE expandFrom(_, _, _)
expandFrom(parts, i, arrays) ==
  IF i > Len(FieldNames) THEN [ok |-> TRUE, arrays |-> arrays, calls |-> i - 1]
  ELSE LET r == parseField(parts[i], FIELD_CONFIG[FieldNames[i]].min,
                           FIELD_CONFIG[FieldNames[i]].max)
       IN  IF ~r.ok THEN [ok |-> FALSE, message |-> r.message, calls |-> i]
           ELSE expandFrom(parts, i + 1, Append(arrays, r.values))

\* The texts of the errors parseCronExpression throws itself.
RequiredMessage == <<"Cron string is required">>

FormatMessage ==
  <<"Invalid cron expression. Expected format: minute hour day_of_month month day_of_week command">>

ParsePrefix == "Failed to parse cron expression: "

\* The catch block throwing the prefix alone, the field's message lost.
rethrowBare(message) == Throw(<<ParsePrefix>>)

\* catch (error) { throw new Error(`Failed to parse cron expression: ...`) }
rethrow(message) == Throw(<<ParsePrefix>> \o message)

\* parseParts taking the sixth token alone as the command.
parsePartsFirstWord(parts) ==
  LET command == parts[6]
      fields  == expandFrom(parts, 1, <<>>)
  IN  IF fields.ok
      THEN [outcome |-> [ok         |-> TRUE,
                         minute     |-> fields.arrays[1],
                         hour       |-> fields.arrays[2],
                         dayOfMonth |-> fields.arrays[3],
                         month      |-> fields.arrays[4],
                         dayOfWeek  |-> fields.arrays[5],
                         command    |-> command],
            calls |-> fields.calls]
      ELSE [outcome |-> rethrow(fields.message), calls |-> fields.calls]

\* Lines 162-176 of parseCronExpression, once the text is split into parts.
parseParts(parts) ==
  LET commandParts == SubSeq(parts, 6, Len(parts))
      command      == join(commandParts)
      fields       == expandFrom(parts, 1, <<>>)
  IN  IF fields.ok
      THEN [outcome |-> [ok         |-> TRUE,
                         minute     |-> fields.arrays[1],
                         hour       |-> fields.arrays[2],
                         dayOfMonth |-> fields.arrays[3],
                         month      |-> fields.arrays[4],
                         dayOfWeek  |-> fields.arrays[5],
                         command    |-> command],
            calls |-> fields.calls]
      ELSE [outcome |-> rethrow(fields.message), calls |-> fields.calls]

\* parseCronExpression with parts.length < 5: five tokens are let through.
parseCronExpressionFiveTokens(cronString) ==
  IF ~Truthy(cronString) \/ cronString.type # "string"
  THEN [outcome |-> Throw(RequiredMessage), calls |-> 0]
  ELSE LET parts == splitWhitespace(trim(cronString.text))
       IN  IF Len(parts) < 5
           THEN [outcome |-> Throw(FormatMessage), calls |-> 0]
           ELSE parseParts(parts)

\* parseCronExpression(cronString): `outcome` is what the call returns or
\* throws, `calls` the number of parseField calls it made.
parseCronExpression(cronString) ==
  IF ~Truthy(cronString) \/ cronString.type # "string"
  THEN [outcome |-> Throw(RequiredMessage), calls |-> 0]
  ELSE LET parts == splitWhitespace(trim(cronString.text))
       IN  IF Len(parts) < 6
           THEN [outcome |-> Throw(FormatMessage), calls |-> 0]
           ELSE parseParts(parts)

\* ------------------------------------------------------------- the inputs

\* Characters of the field expressions handed to parseField.
FieldAlphabet == {"*", "/", "-", ",", "x", "0", "1", "2", "7"}

Expressions == UNION {[1..n -> FieldAlphabet] : n \in 0..MaxLen}

\* Fields whose bounds parseField is called with.
ExpandedFields == {"dayOfWeek", "month"}

\* Tokens tried in each of the five field positions of a cron string: the
\* README's example, another expression the field accepts and one it rejects.
FieldTexts ==
  << { <<"*", "/", "1", "5">>, <<"5", "9">>, <<"6", "0">> },
     { <<"0">>, <<"*">>, <<"1", ",", "x">> },
     { <<"1", ",", "1", "5">>, <<"1", "-", "5">>, <<"0">> },
     { <<"*">>, <<"1", "2">>, <<"1", "-", "1", "3">> },
     { <<"1", "-", "5">>, <<"*", "/", "2">>, <<"7">> } >>

\* Words of the command text.
CommandWords == { <<"/", "u", "s", "r", "/", "b", "i", "n", "/", "f", "i", "n", "d">>,
                  <<"-", "x">> }

\* White space between two tokens, and around the whole text.
Separators == { <<" ">>, <<" ", "\t">> }

Padding == { <<>>, <<" ">> }

\* Most words a command is given.
MaxCommandWords == 2

\* The first n field tokens of a cron string, in every combination.
RECURSIVE FieldTokens(_)
FieldTokens(n) ==
  IF n = 0 THEN {<<>>}
  ELSE {Append(t, x) : t \in FieldTokens(n - 1), x \in FieldTexts[n]}

\* The commands of n words.
RECURSIVE Commands(_)
Commands(n) ==
  IF n = 0 THEN {<<>>}
  ELSE {Append(t, x) : t \in Commands(n - 1), x \in CommandWords}

\* The token sequences of the cron strings: up to five field tokens, or five
\* of them followed by one or more command words.
TokenLists ==
  UNION {FieldTokens(n) : n \in 0..5}
    \cup {f \o c : f \in FieldTokens(5),
                   c \in UNION {Commands(k) : k \in 1..MaxCommandWords}}

\* Tokens i..j written out with `sep` between neighbours.
RECURSIVE Spell(_, _, _, _)
Spell(tokens, i, j, sep) ==
  IF i > j THEN <<>>
  ELSE IF i = j THEN tokens[i]
  ELSE tokens[i] \o sep \o Spell(tokens, i + 1, j, sep)

\* The text of a cron string made of `tokens`: the field tokens and the first
\* command word are separated by fieldSep, the command words by commandSep,
\* with pad before and after.
CronText(tokens, fieldSep, commandSep, pad) ==
  LET n == Len(tokens)
  IN  pad \o Spell(tokens, 1, IF n < 6 THEN n ELSE 6, fieldSep)
          \o (IF n > 6 THEN commandSep \o Spell(tokens, 7, n, commandSep)
                       ELSE <<>>)
          \o pad

\* ------------------------------------------------------------------ state

VARIABLES
  pc,          \* "idle" before the call, then "expanded" or "parsed"
  expression,  \* parseField's argument
  min, max,    \* the bounds parseField is called with
  cronString,  \* parseCronExpression's argument
  given,       \* how the text of cronString was put together
  outcome,     \* what the call returned or threw
  calls        \* parseField calls made by parseCronExpression

vars == <<pc, expression, min, max, cronString, given, outcome, calls>>

NoText == [tokens |-> <<>>, fieldSep |-> <<>>, commandSep |-> <<>>, pad |-> <<>>]

Init ==
  /\ pc = "idle"
  /\ expression = <<>>
  /\ min = 0
  /\ max = 0
  /\ cronString = Undefined
  /\ given = NoText
  /\ outcome = Return(<<>>)
  /\ calls = 0

\* A caller invokes parseField(expr, FIELD_CONFIG[f].min, FIELD_CONFIG[f].max).
ExpandField ==
  /\ pc = "idle"
  /\ \E expr \in Expressions, f \in ExpandedFields :
       /\ expression' = expr
       /\ min' = FIELD_CONFIG[f].min
       /\ max' = FIELD_CONFIG[f].max
       /\ outcome' = parseField(expr, FIELD_CONFIG[f].min, FIELD_CONFIG[f].max)
  /\ pc' = "expanded"
  /\ UNCHANGED <<cronString, given, calls>>

\* A caller invokes parseCronExpression with a string.
ParseSchedule ==
  /\ pc = "idle"
  /\ \E tokens \in TokenLists, fieldSep \in Separators,
        commandSep \in Separators, pad \in Padding :
       \E text \in {StringValue(CronText(tokens, fieldSep, commandSep, pad))} :
         \E run \in {parseCronExpression(text)} :
           /\ cronString' = text
           /\ given' = [tokens |-> tokens, fieldSep |-> fieldSep,
                        commandSep |-> commandSep, pad |-> pad]
           /\ outcome' = run.outcome
           /\ calls' = run.calls
  /\ pc' = "parsed"
  /\ UNCHANGED <<expression, min, max>>

\* A caller invokes parseCronExpression with no argument, null or a number.
ParseNonString ==
  /\ pc = "idle"
  /\ \E v \in {Undefined, Null, NumberValue} :
       \E run \in {parseCronExpression(v)} :
           /\ cronString' = v
           /\ outcome' = run.outcome
           /\ calls' = run.calls
  /\ pc' = "parsed"
  /\ UNCHANGED <<expression, min, max, given>>

Next == ExpandField \/ ParseSchedule \/ ParseNonString

Spec == Init /\ [][Next]_vars

\* ------------------------------------------- the grammar of the claims

\* A decimal numeral: one or more digits and nothing else.
IsNumeral(s) == s # <<>> /\ \A i \in 1..Len(s) : IsDigit(s[i])

Before(s, i) == SubSeq(s, 1, i - 1)

After(s, i) == SubSeq(s, i + 1, Len(s))

\* s is written a-b with numerals a and b (a numeral holds no "-", so the
\* position of the dash is unique).
IsRange(s) ==
  \E i \in 1..Len(s) :
    s[i] = "-" /\ IsNumeral(Before(s, i)) /\ IsNumeral(After(s, i))

DashOf(s) == CHOOSE i \in 1..Len(s) : s[i] = "-"

RangeLow(s) == DigitsValue(Before(s, DashOf(s)))

RangeHigh(s) == DigitsValue(After(s, DashOf(s)))

\* s is written base/n with n a numeral of positive value and base "*", a
\* numeral or a range.
IsStep(s) ==
  \E i \in 1..Len(s) :
    /\ s[i] = "/"
    /\ IsNumeral(After(s, i)) /\ DigitsValue(After(s, i)) > 0
    /\ \/ Before(s, i) = <<"*">>
       \/ IsNumeral(Before(s, i))
       \/ IsRange(Before(s, i))

SlashOf(s) == CHOOSE i \in 1..Len(s) : s[i] = "/"

StepBase(s) == Before(s, SlashOf(s))

StepN(s) == DigitsValue(After(s, SlashOf(s)))

\* The interval a step expression resolves to under the bounds lo..hi.
StepStart(s, lo) ==
  IF StepBase(s) = <<"*">> THEN lo
  ELSE IF IsNumeral(StepBase(s)) THEN DigitsValue(StepBase(s))
  ELSE RangeLow(StepBase(s))

StepEnd(s, hi) ==
  IF IsRange(StepBase(s)) THEN RangeHigh(StepBase(s)) ELSE hi

\* start, start + n, start + 2n, ... up to end; empty when start > end.
Progression(start, end, n) ==
  IF start > end THEN <<>>
  ELSE [k \in 1..((end - start) \div n + 1) |-> start + (k - 1) * n]

\* The elements of a comma-separated expression: its maximal comma-free
\* pieces.
Elements(s) ==
  { SubSeq(s, i, j) : <<i, j>> \in
      { p \in (1..(Len(s) + 1)) \X (0..Len(s)) :
          /\ p[1] <= p[2] + 1
          /\ p[1] = 1 \/ s[p[1] - 1] = ","
          /\ p[2] = Len(s) \/ s[p[2] + 1] = ","
          /\ \A k \in p[1]..p[2] : s[k] # "," } }

StrictlyAscending(a) == \A i \in 1..(Len(a) - 1) : a[i] < a[i + 1]

ValuesOf(a) == {a[i] : i \in 1..Len(a)}

\* A plain single value or a range that lies outside lo..hi.
OutOfBounds(s, lo, hi) ==
  \/ IsNumeral(s) /\ (DigitsValue(s) < lo \/ DigitsValue(s) > hi)
  \/ IsRange(s) /\ (RangeLow(s) < lo \/ RangeHigh(s) > hi
                      \/ RangeLow(s) > RangeHigh(s))

Expanded == pc = "expanded"

\* ------------------------------------------------------------- the claims

\* An element a list may hold by section 3 of the specification.
IsPlainElement(s) == s = <<"*">> \/ IsNumeral(s) \/ IsRange(s)

\* A field expression of the grammar.
IsFieldExpression(s) ==
  \/ IsPlainElement(s)
  \/ IsStep(s)
  \/ includes(s, ",") /\ \A e \in Elements(s) : IsPlainElement(e)

\* C1: whenever parseField returns for an expression of the grammar, the
\* returned sequence is non-empty, strictly ascending and lies within
\* min..max.
ExpandedValueSetInvariant ==
  Expanded /\ IsFieldExpression(expression) /\ outcome.ok
    => /\ outcome.values # <<>>
       /\ StrictlyAscending(outcome.values)
       /\ \A v \in ValuesOf(outcome.values) : min <= v /\ v <= max

\* An element a list may hold by section 4.1 of the specification.
IsListElement(s) == IsPlainElement(s) \/ IsStep(s)

\* C2: a comma-separated expression whose elements are wildcards, ranges,
\* steps or plain integers expands to the ascending, duplicate-free union of
\* the expansions of its elements.
ListRule ==
  /\ Expanded
  /\ includes(expression, ",")
  /\ \A e \in Elements(expression) :
       IsListElement(e) /\ parseField(e, min, max).ok
  => /\ outcome.ok
     /\ StrictlyAscending(outcome.values)
     /\ ValuesOf(outcome.values)
          = UNION {ValuesOf(parseField(e, min, max).values) :
                     e \in Elements(expression)}

\* C3: a step expression base/n, n a positive integer, never fails; its
\* result is exactly start, start + n, start + 2n, ... up to the resolved end,
\* where the interval is min..max for base "*", a..b for a range a-b and
\* a..max for a single integer a.  So the result begins at the resolved start
\* (it is empty when the start lies above the end), neighbours differ by n and
\* no element exceeds the resolved end.
StepRule ==
  Expanded /\ IsStep(expression)
    => LET start == StepStart(expression, min)
           end   == StepEnd(expression, max)
           n     == StepN(expression)
       IN  /\ outcome.ok
           /\ outcome.values = Progression(start, end, n)
           /\ outcome.values # <<>> => outcome.values[1] = start
           /\ start <= end => outcome.values # <<>>
           /\ \A i \in 1..(Len(outcome.values) - 1) :
                outcome.values[i + 1] - outcome.values[i] = n
           /\ \A v \in ValuesOf(outcome.values) : v <= end

\* A step over a range base, n > 1, has been expanded to several values.
StepRuleWitness ==
  /\ Expanded /\ IsStep(expression) /\ outcome.ok
  /\ IsRange(StepBase(expression))
  /\ StepN(expression) > 1
  /\ Len(outcome.values) > 1

\* C4: a range a-b with min <= a <= b <= max expands to exactly a, a+1, ..., b.
RangeRule ==
  /\ Expanded /\ IsRange(expression)
  /\ min <= RangeLow(expression)
  /\ RangeLow(expression) <= RangeHigh(expression)
  /\ RangeHigh(expression) <= max
  => /\ outcome.ok
     /\ Len(outcome.values) = RangeHigh(expression) - RangeLow(expression) + 1
     /\ \A k \in 1..Len(outcome.values) :
          outcome.values[k] = RangeLow(expression) + k - 1

\* A range of more than one value has been expanded.
RangeRuleWitness ==
  /\ Expanded /\ IsRange(expression) /\ outcome.ok
  /\ min < RangeLow(expression)
  /\ RangeLow(expression) < RangeHigh(expression)
  /\ Len(outcome.values) > 1

Malformed(s) == ~IsNumeral(s)

\* C6: parseField throws whenever the text in an integer position (a plain
\* single value, an end of a range, the base or an end of the base of a step,
\* the step text) is not wholly an integer numeral, and whenever the step
\* value is not positive.
MalformedNumberRejection ==
  /\ Expanded
  /\ \/ \* a plain single value
        /\ expression # <<"*">>
        /\ \A c \in {"/", "-", ","} : ~includes(expression, c)
        /\ Malformed(expression)
     \/ \* a range
        /\ \A c \in {"/", ","} : ~includes(expression, c)
        /\ \E i \in 1..Len(expression) :
             /\ expression[i] = "-"
             /\ ~includes(Before(expression, i), "-")
             /\ ~includes(After(expression, i), "-")
             /\ Malformed(Before(expression, i))
                  \/ Malformed(After(expression, i))
     \/ \* a step
        \E i \in 1..Len(expression) :
          /\ expression[i] = "/"
          /\ ~includes(Before(expression, i), "/")
          /\ ~includes(After(expression, i), "/")
          /\ LET base == Before(expression, i)
                 step == After(expression, i)
             IN  \/ Malformed(step)
                 \/ DigitsValue(step) <= 0
                 \/ /\ base # <<"*">> /\ ~includes(base, "-")
                    /\ Malformed(base)
                 \/ \E j \in 1..Len(base) :
                      /\ base[j] = "-"
                      /\ ~includes(Before(base, j), "-")
                      /\ ~includes(After(base, j), "-")
                      /\ Malformed(Before(base, j))
                           \/ Malformed(After(base, j))
  => ~outcome.ok

\* C10: a step expression base/n with a positive integer n and a numeric
\* base never throws on account of bounds: base a gives the values a, a + n,
\* ... up to max whether or not a >= min, and base a-b gives a, a + n, ... up
\* to b whether or not a >= min and b <= max.
LenientStepBounds ==
  /\ Expanded /\ IsStep(expression)
  /\ StepBase(expression) # <<"*">>
  => /\ outcome.ok
     /\ LET a == StepStart(expression, min)
            n == StepN(expression)
        IN  IF IsRange(StepBase(expression))
            THEN ValuesOf(outcome.values)
                   = {v \in a..RangeHigh(StepBase(expression)) :
                        (v - a) % n = 0}
            ELSE ValuesOf(outcome.values)
                   = {v \in a..max : (v - a) % n = 0}

\* A step was expanded, without an error, to a value outside min..max.
LenientStepBoundsWitness ==
  /\ Expanded /\ IsStep(expression) /\ outcome.ok
  /\ StepBase(expression) # <<"*">>
  /\ \E v \in ValuesOf(outcome.values) : v < min \/ v > max

\* ------------------------------------------------ claims of the schedule

\* parseCronExpression was called with the text spelt from given.tokens.
ParsedText == pc = "parsed" /\ cronString.type = "string"

\* What the i-th token of the text expands to under the bounds lo..hi.
Expand(i, lo, hi) == parseField(given.tokens[i], lo, hi)

\* The first five tokens of the text all expand.
FieldsExpand ==
  /\ Expand(1, 0, 59).ok
  /\ Expand(2, 0, 23).ok
  /\ Expand(3, 1, 31).ok
  /\ Expand(4, 1, 12).ok
  /\ Expand(5, 0, 6).ok

\* The five arrays of the returned schedule are the expansions of the first
\* five tokens against the bounds of their fields.
FieldsReturned ==
  /\ outcome.ok
  /\ outcome.minute = Expand(1, 0, 59).values
  /\ outcome.hour = Expand(2, 0, 23).values
  /\ outcome.dayOfMonth = Expand(3, 1, 31).values
  /\ outcome.month = Expand(4, 1, 12).values
  /\ outcome.dayOfWeek = Expand(5, 0, 6).values

\* Tokens 6..k with single spaces between them.
CommandJoined == Spell(given.tokens, 6, Len(given.tokens), <<" ">>)

\* The command as the text holds it: tokens 6..k with the white space that
\* separates them in the text.
CommandVerbatim == Spell(given.tokens, 6, Len(given.tokens), given.commandSep)

TokenCountRejection ==
  pc = "parsed"
    => /\ cronString.type # "string" \/ cronString.text = <<>>
            => outcome = Throw(RequiredMessage) /\ calls = 0
       /\ cronString.type = "string" /\ Len(given.tokens) < 6
            => /\ ~outcome.ok /\ calls = 0
               /\ outcome.message \in {RequiredMessage, FormatMessage}
       /\ cronString.type = "string" /\ Len(given.tokens) >= 6
            => \/ outcome.ok
               \/ outcome.message \notin {RequiredMessage, FormatMessage}

\* A text of five tokens, each of which expands, was rejected.
TokenCountRejectionWitness ==
  /\ ParsedText /\ Len(given.tokens) = 5 /\ FieldsExpand
  /\ outcome = Throw(FormatMessage)

\* The first field whose expansion throws, and what it throws.
FieldError ==
  IF ~Expand(1, 0, 59).ok THEN Expand(1, 0, 59)
  ELSE IF ~Expand(2, 0, 23).ok THEN Expand(2, 0, 23)
  ELSE IF ~Expand(3, 1, 31).ok THEN Expand(3, 1, 31)
  ELSE IF ~Expand(4, 1, 12).ok THEN Expand(4, 1, 12)
  ELSE Expand(5, 0, 6)

\* C9: when the expansion of one of the five fields throws, from inside a
\* list element too, parseCronExpression returns no schedule and no array of
\* the fields that did expand; it throws one error, whose message is the
\* schedule-parse prefix followed by the message of the field's error, the
\* prefix occurring once.
AllOrNothing ==
  ParsedText /\ Len(given.tokens) >= 6 /\ ~FieldsExpand
    => /\ ~outcome.ok
       /\ DOMAIN outcome = {"ok", "message"}
       /\ outcome.message = <<ParsePrefix>> \o FieldError.message
       /\ Cardinality({i \in 1..Len(outcome.message) :
                         outcome.message[i] = ParsePrefix}) = 1

\* The minute expanded, the hour failed inside the list 1,x and the call
\* threw.
AllOrNothingWitness ==
  /\ ParsedText /\ Len(given.tokens) >= 6 /\ ~outcome.ok
  /\ Expand(1, 0, 59).ok
  /\ given.tokens[2] = <<"1", ",", "x">>
  /\ calls = 2

====
